---- MODULE Spec2Model ----
(***************************************************************************)
(* ChatSphere: the storage layer (DatabaseStorage) and the HTTP handlers   *)
(* of server/routes.ts, as a state machine over the five relational tables.*)
(* Every awaited storage call is one atomic step of the request that       *)
(* issued it; requests of different clients interleave between the steps.  *)
(***************************************************************************)
EXTENDS Integers, Sequences, FiniteSets, TLC

(***************************************************************************)
(* Bounds of the model.                                                     *)
(***************************************************************************)
MaxConvs == 2
MaxMsgs == 2
MaxTime == 2
MaxWrites == 3

(***************************************************************************)
(* The users table holds the registered users; an authenticated caller is  *)
(* always registered (upsertUser runs at login).  "x" is an identifier that *)
(* names no row of users.                                                   *)
(***************************************************************************)
Users == {"a", "b"}
Ids == Users \cup {"x"}
Procs == {"p1", "p2"}

DefaultLimit == 50

NULL == 0

VARIABLES
    conversations,        \* Seq of [isGroup, updatedAt]; the row's id is its index
    conversationMembers,  \* Seq of [conversationId, userId]
    messages,             \* Seq of [conversationId, senderId, createdAt]
    messageReadReceipts,  \* Seq of [messageId, userId]
    now,                  \* the clock that defaultNow() and new Date() read
    nWrites,              \* requests started so far on a route that writes
    pc,                   \* per request slot: the storage call it awaits
    req,                  \* per request slot: the request being handled
    loc,                  \* per request slot: the handler's local variables
    resp,                 \* per request slot: the response sent
    hist,                 \* per request slot: what the request has written
    requested,            \* per conversation: the members its creation asked for
    lastTouch,            \* the conversation whose updatedAt was written last
    lastDone,             \* the request that completed last
    messagesData          \* ChatArea: the data of its messages query

store == <<conversations, conversationMembers, messages, messageReadReceipts>>
vars == <<conversations, conversationMembers, messages, messageReadReceipts,
          now, nWrites, pc, req, loc, resp, hist, requested,
          lastTouch, lastDone, messagesData>>

(***************************************************************************)
(* Helpers on sequences.                                                    *)
(***************************************************************************)
Min(x, y) == IF x <= y THEN x ELSE y

Range(s) == {s[i] : i \in DOMAIN s}

RemoveAt(s, i) == SubSeq(s, 1, i - 1) \o SubSeq(s, i + 1, Len(s))

Reverse(s) == [i \in 1..Len(s) |-> s[Len(s) + 1 - i]]

RECURSIVE SeqOfSet(_)
SeqOfSet(S) ==
    IF S = {} THEN <<>>
    ELSE LET x == CHOOSE y \in S : \A z \in S : y <= z
         IN  <<x>> \o SeqOfSet(S \ {x})

\* ORDER BY key DESC over rows [id, key]: every order the database may return;
\* rows with equal keys come in any order (no query names a secondary key).
RECURSIVE OrderByDesc(_)
OrderByDesc(s) ==
    IF s = <<>> THEN {<<>>}
    ELSE UNION { { <<s[i]>> \o t : t \in OrderByDesc(RemoveAt(s, i)) } :
                 i \in {k \in DOMAIN s : \A j \in DOMAIN s : s[j].key <= s[k].key} }

\* LIMIT n.
Limit(s, n) == SubSeq(s, 1, Min(n, Len(s)))

(***************************************************************************)
(* DatabaseStorage: the queries, as functions of the tables.               *)
(***************************************************************************)
ConvIds == 1..Len(conversations)
MsgIds == 1..Len(messages)

\* conversationMembers INNER JOIN users WHERE conversationId = id, as user ids.
getConversationMembers(id) ==
    LET rows == SeqOfSet({i \in DOMAIN conversationMembers :
                   /\ conversationMembers[i].conversationId = id
                   /\ conversationMembers[i].userId \in Users})
    IN  [k \in 1..Len(rows) |-> conversationMembers[rows[k]].userId]

\* First query of getUserConversations: conversationMembers INNER JOIN
\* conversations WHERE userId = U ORDER BY conversations.updatedAt DESC.
UserConversationRows(userId) ==
    LET rows == SeqOfSet({i \in DOMAIN conversationMembers :
                   /\ conversationMembers[i].userId = userId
                   /\ conversationMembers[i].conversationId \in ConvIds})
    IN  [k \in 1..Len(rows) |->
           [id  |-> conversationMembers[rows[k]].conversationId,
            key |-> conversations[conversationMembers[rows[k]].conversationId].updatedAt]]

\* A slip: the ORDER BY is left out, the rows come in membership order.
UserConversationListsUnordered(userId) == {UserConversationRows(userId)}

UserConversationLists(userId) == OrderByDesc(UserConversationRows(userId))

\* messages WHERE conversationId = id, as rows [id, key = createdAt].
ConversationMessageRows(id) ==
    LET rows == SeqOfSet({i \in DOMAIN messages : messages[i].conversationId = id})
    IN  [k \in 1..Len(rows) |-> [id |-> rows[k], key |-> messages[rows[k]].createdAt]]

\* A slip: the order is ascending, LIMIT 1 keeps the oldest message.
LastMessageResultsAscending(id) ==
    { IF s = <<>> THEN NULL ELSE s[Len(s)].id :
        s \in OrderByDesc(ConversationMessageRows(id)) }

\* Second query: ORDER BY createdAt DESC LIMIT 1; NULL when there is no row.
LastMessageResults(id) ==
    { IF s = <<>> THEN NULL ELSE s[1].id :
        s \in { Limit(o, 1) : o \in OrderByDesc(ConversationMessageRows(id)) } }

\* Third query: messages LEFT JOIN messageReadReceipts ON (messageId, userId).
\* A message without a matching receipt yields one row whose receipt is NULL.
UnreadJoinRows(id, userId) ==
    UNION { LET matches == {r \in DOMAIN messageReadReceipts :
                              /\ messageReadReceipts[r].messageId = m
                              /\ messageReadReceipts[r].userId = userId}
            IN  IF matches = {} THEN {[message |-> m, receipt |-> NULL]}
                ELSE {[message |-> m, receipt |-> r] : r \in matches}
          : m \in {i \in DOMAIN messages : messages[i].conversationId = id} }

\* A slip in the WHERE clause: the receipt is not looked at.
UnreadCountReceiptsIgnored(id, userId) ==
    Cardinality({row \in UnreadJoinRows(id, userId) :
                   messages[row.message].senderId # userId})

\* A slip in the WHERE clause: the sender's own messages are counted too.
UnreadCountOwnCounted(id, userId) ==
    Cardinality({row \in UnreadJoinRows(id, userId) : row.receipt = NULL})

\* WHERE receipts.id IS NULL AND messages.senderId != userId, count(*).
UnreadCount(id, userId) ==
    Cardinality({row \in UnreadJoinRows(id, userId) :
                   /\ row.receipt = NULL
                   /\ messages[row.message].senderId # userId})

\* Fourth query: conversationMembers INNER JOIN users
\* WHERE conversationId = id AND userId != U.
OtherMembers(id, userId) ==
    SelectSeq(getConversationMembers(id), LAMBDA u : u # userId)

\* A slip: the rows come back in the order the query fetched them.
getConversationMessagesNotReversed(id, limit) ==
    { [k \in 1..Len(s) |-> s[k].id] :
        s \in { Limit(o, limit) : o \in OrderByDesc(ConversationMessageRows(id)) } }

\* getConversationMessages: messages INNER JOIN users WHERE conversationId = id
\* ORDER BY createdAt DESC LIMIT limit, then reversed.  Every sender is a row of
\* users (foreign key), so the join drops nothing.
getConversationMessages(id, limit) ==
    { Reverse([k \in 1..Len(s) |-> s[k].id]) :
        s \in { Limit(o, limit) : o \in OrderByDesc(ConversationMessageRows(id)) } }

(***************************************************************************)
(* DatabaseStorage: the writes.  gen_random_uuid() gives every new row an  *)
(* identifier no row has; here it is the row's index.                       *)
(***************************************************************************)
\* A slip: insert-or-replace, the new row takes the place of the newest one.
InsertReplacingLast(table, row) ==
    IF table = <<>> THEN <<row>> ELSE [table EXCEPT ![Len(table)] = row]

\* db.insert(table).values(row)
Insert(table, row) == Append(table, row)

\* A slip: every insert is taken for a conflict, nothing is written.
ReceiptConflictAlways(id, row) == TRUE

\* The columns of message_read_receipts under a unique constraint: the primary
\* key alone (schema.ts declares no unique index on (messageId, userId)).
ReceiptConflict(id, row) == id \in DOMAIN messageReadReceipts

\* db.insert(messageReadReceipts).values(row).onConflictDoNothing()
InsertReceiptOnConflictDoNothing(row) ==
    IF ReceiptConflict(Len(messageReadReceipts) + 1, row)
    THEN messageReadReceipts
    ELSE Insert(messageReadReceipts, row)

\* A slip: the parent conversation is left as it was.
TouchNothing(table, id, t) == table

\* db.update(conversations).set({updatedAt: t}).where(eq(conversations.id, id))
TouchConversation(table, id, t) == [table EXCEPT ![id].updatedAt = t]

\* Foreign keys: conversation_members.user_id and message_read_receipts.message_id.
UserExists(userId) == userId \in Users
MessageExists(messageId) == messageId \in MsgIds

\* The timestamps a write made now may carry: the clock has not moved since the
\* previous write, or it has.
Stamps == {t \in {now, now + 1} : t <= MaxTime}

(***************************************************************************)
(* routes.ts: the requests.                                                 *)
(***************************************************************************)
Digits == {"0", "1", "2", "3", "4", "5", "6", "7", "8", "9"}
DigitVal(c) ==
    CASE c = "0" -> 0 [] c = "1" -> 1 [] c = "2" -> 2 [] c = "3" -> 3
      [] c = "4" -> 4 [] c = "5" -> 5 [] c = "6" -> 6 [] c = "7" -> 7
      [] c = "8" -> 8 [] c = "9" -> 9

\* parseInt on a string of decimal digits.
RECURSIVE ParseDigits(_, _)
ParseDigits(s, acc) ==
    IF s = <<>> \/ s[1] \notin Digits THEN acc
    ELSE ParseDigits(Tail(s), acc * 10 + DigitVal(s[1]))

parseInt(s) == ParseDigits(s, 0)

\* A slip: the default page size is ignored, an absent limit reads as 1.
QueryLimitNoDefault(limit) == IF limit # <<>> THEN parseInt(limit) ELSE 1

\* limit ? parseInt(limit) : 50   (the empty string is falsy)
QueryLimit(limit) == IF limit # <<>> THEN parseInt(limit) ELSE DefaultLimit

\* The query strings tried for ?limit= : absent, "1", "2".
LimitInputs == {<<>>, <<"1">>, <<"2">>}

\* The memberIds arrays tried: empty, the caller alone, another user, the same
\* user twice, a user and an id that names no user.
MemberIdInputs == {<<>>, <<"a">>, <<"b">>, <<"b", "b">>, <<"b", "x">>}

\* The user who creates conversations through POST /api/conversations.
Creators == {"a"}

\* The routes that write: a request on one of them counts against MaxWrites.
WritingOps == {"create", "direct", "send", "read"}

NoReq == [op |-> "none", user |-> "", conv |-> NULL, other |-> "",
          memberIds |-> <<>>, isGroup |-> FALSE, limit |-> <<>>,
          msg |-> NULL, content |-> FALSE]

ListRequests == {[NoReq EXCEPT !.op = "list", !.user = u] : u \in Users}

CreateRequests ==
    {[NoReq EXCEPT !.op = "create", !.user = u, !.isGroup = g, !.memberIds = ms] :
       u \in Creators, g \in BOOLEAN, ms \in MemberIdInputs}

DirectRequests ==
    {[NoReq EXCEPT !.op = "direct", !.user = u, !.other = o] : u \in Users, o \in Ids}

GetMessagesRequests ==
    {[NoReq EXCEPT !.op = "getMessages", !.user = u, !.conv = c, !.limit = l] :
       u \in Users, c \in 1..MaxConvs, l \in LimitInputs}

SendRequests ==
    {[NoReq EXCEPT !.op = "send", !.user = u, !.conv = c, !.content = k] :
       u \in Users, c \in 1..MaxConvs, k \in BOOLEAN}

ReadRequests ==
    {[NoReq EXCEPT !.op = "read", !.user = u, !.msg = m] : u \in Users, m \in 1..MaxMsgs}

\* The two conversations the messaging requests work on: a's direct conversation
\* with b, and a group that a creates for itself alone.
SetupRequests ==
    {[NoReq EXCEPT !.op = "direct", !.user = "a", !.other = "b"],
     [NoReq EXCEPT !.op = "create", !.user = "a", !.isGroup = TRUE, !.memberIds = <<"a">>]}

MessagingRequests ==
    SetupRequests \cup ListRequests \cup GetMessagesRequests \cup SendRequests
    \cup ReadRequests

ConversationRequests == ListRequests \cup CreateRequests \cup DirectRequests

\* a opens the direct conversation with b; both send to it.
ConcurrentSendRequests ==
    {[NoReq EXCEPT !.op = "direct", !.user = "a", !.other = "b"]}
    \cup {[NoReq EXCEPT !.op = "send", !.user = u, !.conv = 1, !.content = TRUE] :
            u \in Users}

\* a and b each open the direct conversation with the other.
ConcurrentDirectRequests ==
    {[NoReq EXCEPT !.op = "direct", !.user = "a", !.other = "b"],
     [NoReq EXCEPT !.op = "direct", !.user = "b", !.other = "a"]}

\* a opens the direct conversation with b and sends to it while b polls its
\* conversation list.
ConcurrentListRequests ==
    {[NoReq EXCEPT !.op = "direct", !.user = "a", !.other = "b"],
     [NoReq EXCEPT !.op = "send", !.user = "a", !.conv = 1, !.content = TRUE],
     [NoReq EXCEPT !.op = "list", !.user = "b"]}

\* a opens its two conversations and sends a message to each.
TwoConversationRequests ==
    SetupRequests
    \cup {[NoReq EXCEPT !.op = "send", !.user = "a", !.conv = c, !.content = TRUE] :
            c \in 1..MaxConvs}

\* ChatArea of user a with the direct conversation selected: a opens the
\* conversation, the messages query fetches it (no limit in the URL), and
\* handleSendMessage posts the trimmed, non-empty text.
ChatAreaRequests ==
    {[NoReq EXCEPT !.op = "direct", !.user = "a", !.other = "b"],
     [NoReq EXCEPT !.op = "getMessages", !.user = "a", !.conv = 1],
     [NoReq EXCEPT !.op = "send", !.user = "a", !.conv = 1, !.content = TRUE]}

NoLoc == [conversation |-> NULL, i |-> 0, list |-> <<>>, idx |-> 0,
          lastMessage |-> NULL, unreadCount |-> 0, result |-> <<>>,
          message |-> NULL]

NoResp == [status |-> 0, conv |-> NULL, msgs |-> <<>>, list |-> <<>>]

\* lastDone when the request that completed last was not a successful
\* POST /api/conversations/direct.
NoDone == [user |-> "", other |-> "", conv |-> NULL]

\* What a request has done so far: whether another request ran while it did,
\* whether it wrote, whether a storage call of its threw, the conversation and
\* message rows it inserted, whether it updated the conversation's updatedAt
\* for its message, and the conversation the preceding
\* request returned when that was the same POST /api/conversations/direct
\* (prev) or the one with caller and otherUserId exchanged (mirror).
NoHist == [overlap |-> FALSE, wrote |-> FALSE, threw |-> FALSE, conv |-> NULL,
           msg |-> NULL, touched |-> FALSE, prev |-> NULL, mirror |-> NULL]

Active(p) == pc[p] \notin {"idle", "done"}

Init ==
    /\ conversations = <<>>
    /\ conversationMembers = <<>>
    /\ messages = <<>>
    /\ messageReadReceipts = <<>>
    /\ now = 0
    /\ nWrites = 0
    /\ pc = [p \in Procs |-> "idle"]
    /\ req = [p \in Procs |-> NoReq]
    /\ loc = [p \in Procs |-> NoLoc]
    /\ resp = [p \in Procs |-> NoResp]
    /\ hist = [p \in Procs |-> NoHist]
    /\ requested = <<>>
    /\ lastTouch = [conv |-> NULL, kind |-> "none"]
    /\ lastDone = NoDone
    /\ messagesData = <<>>

\* res.status(status).json(...): the handler returns.
Respond(p, status, conv, msgs, list) ==
    /\ pc' = [pc EXCEPT ![p] = "done"]
    /\ resp' = [resp EXCEPT ![p] = [status |-> status, conv |-> conv,
                                    msgs |-> msgs, list |-> list]]
    /\ loc' = [loc EXCEPT ![p] = NoLoc]
    /\ lastDone' = IF req[p].op = "direct" /\ status = 200
                   THEN [user |-> req[p].user, other |-> req[p].other, conv |-> conv]
                   ELSE NoDone

\* The handler goes on to await its next storage call.
Await(p, label, newLoc) ==
    /\ pc' = [pc EXCEPT ![p] = label]
    /\ loc' = [loc EXCEPT ![p] = newLoc]
    /\ UNCHANGED <<resp, lastDone>>

Wrote(p) == hist' = [hist EXCEPT ![p].wrote = TRUE]

\* A slip: the body is used without being validated.
ParseOkAlways(r) == TRUE

\* insertConversationSchema.extend({memberIds: z.array(z.string()).min(1)}) and
\* insertMessageSchema (content: text().notNull()) throw on a bad body.
ParseOk(r) ==
    /\ r.op = "create" => r.memberIds # <<>>
    /\ r.op = "send" => r.content

FirstCall(op) ==
    CASE op = "list" -> "guc_list"
      [] op = "create" -> "c_create"
      [] op = "direct" -> "guc_list"
      [] op = "getMessages" -> "g_members"
      [] op = "send" -> "s_members"
      [] op = "read" -> "r_mark"

\* A request arrives: the handler runs up to its first await.  At most `budget`
\* requests on routes that write are sent.
StartWithin(p, requests, budget) ==
    /\ ~Active(p)
    /\ \E r \in requests :
        /\ IF r.op \in WritingOps
           THEN nWrites < budget /\ nWrites' = nWrites + 1
           ELSE nWrites' = nWrites
        /\ req' = [req EXCEPT ![p] = r]
        /\ IF ParseOk(r)
           THEN /\ pc' = [pc EXCEPT ![p] = FirstCall(r.op)]
                /\ resp' = [resp EXCEPT ![p] = NoResp]
                /\ loc' = [loc EXCEPT ![p] = NoLoc]
                /\ lastDone' = lastDone
           ELSE /\ pc' = [pc EXCEPT ![p] = "done"]
                /\ resp' = [resp EXCEPT ![p] = [NoResp EXCEPT !.status = 500]]
                /\ loc' = [loc EXCEPT ![p] = NoLoc]
                /\ lastDone' = NoDone
        /\ hist' = [q \in Procs |->
                  IF q = p
                  THEN [NoHist EXCEPT !.overlap = \E o \in Procs \ {p} : Active(o),
                                      !.prev =
                                         IF /\ r.op = "direct"
                                            /\ lastDone.user = r.user
                                            /\ lastDone.other = r.other
                                         THEN lastDone.conv ELSE NULL,
                                      !.mirror =
                                         IF /\ r.op = "direct"
                                            /\ lastDone.user = r.other
                                            /\ lastDone.other = r.user
                                         THEN lastDone.conv ELSE NULL]
                  ELSE IF Active(q) THEN [hist[q] EXCEPT !.overlap = TRUE]
                  ELSE hist[q]]
    /\ UNCHANGED <<messagesData, store, now, requested, lastTouch>>

Start(p, requests) == StartWithin(p, requests, MaxWrites)

\* The awaited storage call rejects (the store is unavailable): the handler's
\* catch block answers 500.
StoreFailure(p) ==
    /\ Active(p)
    /\ Respond(p, 500, NULL, <<>>, <<>>)
    /\ hist' = [hist EXCEPT ![p].threw = TRUE]
    /\ UNCHANGED <<messagesData,
                   store, now, nWrites, req, requested, lastTouch>>

(***************************************************************************)
(* GET /api/conversations and the lookup of POST /api/conversations/direct: *)
(* getUserConversations, one step per query.                                *)
(***************************************************************************)
\* existingConversations.find(conv => !conv.isGroup &&
\*   conv.otherMembers.length === 1 && conv.otherMembers[0].id === otherUserId)
IsDirectWith(entry, otherUserId) ==
    /\ ~entry.isGroup
    /\ Len(entry.otherMembers) = 1
    /\ entry.otherMembers[1] = otherUserId

\* Array.prototype.find: the first entry that matches, NULL when none does.
FindDirect(result, otherUserId) ==
    LET hits == {k \in DOMAIN result : IsDirectWith(result[k], otherUserId)}
    IN  IF hits = {} THEN NULL
        ELSE result[CHOOSE k \in hits : \A j \in hits : k <= j].id

\* getUserConversations has returned `result` to its caller.
GucReturn(p, result) ==
    IF req[p].op = "list"
    THEN Respond(p, 200, NULL, <<>>, result)
    ELSE LET found == FindDirect(result, req[p].other)
         IN  IF found # NULL
             THEN Respond(p, 200, found, <<>>, <<>>)
             ELSE Await(p, "d_create", NoLoc)

GucList(p) ==
    /\ pc[p] = "guc_list"
    /\ \E l \in UserConversationLists(req[p].user) :
         IF l = <<>>
         THEN GucReturn(p, <<>>)
         ELSE Await(p, "guc_last", [loc[p] EXCEPT !.list = l, !.idx = 1])
    /\ UNCHANGED <<messagesData,
                   store, now, nWrites, req, hist, requested, lastTouch>>

GucLastMessage(p) ==
    /\ pc[p] = "guc_last"
    /\ \E m \in LastMessageResults(loc[p].list[loc[p].idx].id) :
         Await(p, "guc_unread", [loc[p] EXCEPT !.lastMessage = m])
    /\ UNCHANGED <<messagesData,
                   store, now, nWrites, req, hist, requested, lastTouch>>

GucUnread(p) ==
    /\ pc[p] = "guc_unread"
    /\ Await(p, "guc_others",
             [loc[p] EXCEPT !.unreadCount =
                 UnreadCount(loc[p].list[loc[p].idx].id, req[p].user)])
    /\ UNCHANGED <<messagesData,
                   store, now, nWrites, req, hist, requested, lastTouch>>

GucOthers(p) ==
    /\ pc[p] = "guc_others"
    /\ LET row == loc[p].list[loc[p].idx]
           entry == [id |-> row.id,
                     isGroup |-> conversations[row.id].isGroup,
                     updatedAt |-> row.key,
                     lastMessage |-> loc[p].lastMessage,
                     unreadCount |-> loc[p].unreadCount,
                     otherMembers |-> OtherMembers(row.id, req[p].user)]
           result == Append(loc[p].result, entry)
       IN  IF loc[p].idx = Len(loc[p].list)
           THEN GucReturn(p, result)
           ELSE Await(p, "guc_last",
                      [loc[p] EXCEPT !.result = result, !.idx = loc[p].idx + 1,
                                     !.lastMessage = NULL, !.unreadCount = 0])
    /\ UNCHANGED <<messagesData,
                   store, now, nWrites, req, hist, requested, lastTouch>>

(***************************************************************************)
(* POST /api/conversations and the creation half of                         *)
(* POST /api/conversations/direct.                                          *)
(***************************************************************************)
\* The least index after i whose memberId is not the caller, 0 when none is left:
\* for (const memberId of memberIds) if (memberId !== userId) ...
NextMember(memberIds, userId, i) ==
    LET rest == {k \in DOMAIN memberIds : k > i /\ memberIds[k] # userId}
    IN  IF rest = {} THEN 0 ELSE CHOOSE k \in rest : \A j \in rest : k <= j

\* storage.createConversation({name, isGroup}); updatedAt is defaultNow().
CreateConversation(p) ==
    /\ pc[p] \in {"c_create", "d_create"}
    /\ Len(conversations) < MaxConvs
    /\ \E t \in Stamps :
        /\ now' = t
        /\ conversations' = Insert(conversations,
               [isGroup |-> IF pc[p] = "d_create" THEN FALSE ELSE req[p].isGroup,
                updatedAt |-> t])
    /\ requested' = Append(requested,
           IF pc[p] = "d_create" THEN {req[p].user, req[p].other}
           ELSE {req[p].user} \cup Range(req[p].memberIds))
    /\ lastTouch' = [conv |-> Len(conversations) + 1, kind |-> "create"]
    /\ hist' = [hist EXCEPT ![p].wrote = TRUE, ![p].conv = Len(conversations) + 1]
    /\ Await(p, IF pc[p] = "d_create" THEN "d_self" ELSE "c_creator",
             [loc[p] EXCEPT !.conversation = Len(conversations) + 1])
    /\ UNCHANGED <<messagesData,
                   conversationMembers, messages, messageReadReceipts,
                   nWrites, req>>

\* storage.addConversationMember({conversationId, userId}) for the caller.
AddCreator(p) ==
    /\ pc[p] \in {"c_creator", "d_self"}
    /\ conversationMembers' = Insert(conversationMembers,
           [conversationId |-> loc[p].conversation, userId |-> req[p].user])
    /\ Wrote(p)
    /\ IF pc[p] = "d_self"
       THEN Await(p, "d_other", loc[p])
       ELSE LET k == NextMember(req[p].memberIds, req[p].user, 0)
            IN  IF k = 0
                THEN Respond(p, 200, loc[p].conversation, <<>>, <<>>)
                ELSE Await(p, "c_member", [loc[p] EXCEPT !.i = k])
    /\ UNCHANGED <<messagesData,
                   conversations, messages, messageReadReceipts, now, nWrites,
                   req, requested, lastTouch>>

\* storage.addConversationMember for a requested member; an id that names no
\* user violates the foreign key and the insert throws.
AddMember(p) ==
    /\ pc[p] \in {"c_member", "d_other"}
    /\ LET userId == IF pc[p] = "d_other" THEN req[p].other
                     ELSE req[p].memberIds[loc[p].i]
           k == IF pc[p] = "d_other" THEN 0
                ELSE NextMember(req[p].memberIds, req[p].user, loc[p].i)
       IN  IF ~UserExists(userId)
           THEN /\ Respond(p, 500, NULL, <<>>, <<>>)
                /\ hist' = [hist EXCEPT ![p].threw = TRUE]
                /\ UNCHANGED conversationMembers
           ELSE /\ conversationMembers' = Insert(conversationMembers,
                       [conversationId |-> loc[p].conversation, userId |-> userId])
                /\ Wrote(p)
                /\ IF k = 0
                   THEN Respond(p, 200, loc[p].conversation, <<>>, <<>>)
                   ELSE Await(p, "c_member", [loc[p] EXCEPT !.i = k])
    /\ UNCHANGED <<messagesData,
                   conversations, messages, messageReadReceipts, now, nWrites,
                   req, requested, lastTouch>>

(***************************************************************************)
(* GET and POST /api/conversations/:id/messages, POST /api/messages/:id/read*)
(***************************************************************************)
\* A slip: the membership test is skipped.
IsMemberAlways(id, userId) == TRUE

\* members.some(member => member.id === userId)
IsMember(id, userId) == userId \in Range(getConversationMembers(id))

\* const members = await storage.getConversationMembers(id); the 403 branch.
CheckMembership(p) ==
    /\ pc[p] \in {"g_members", "s_members"}
    /\ IF ~IsMember(req[p].conv, req[p].user)
       THEN Respond(p, 403, NULL, <<>>, <<>>)
       ELSE Await(p, IF pc[p] = "g_members" THEN "g_messages" ELSE "s_insert", loc[p])
    /\ UNCHANGED <<messagesData,
                   store, now, nWrites, req, hist, requested, lastTouch>>

\* A slip: the messages route marks the newest message it returns as read.
GetMessagesMarkingRead(p) ==
    /\ pc[p] = "g_messages"
    /\ \E r \in getConversationMessages(req[p].conv, QueryLimit(req[p].limit)) :
         /\ Respond(p, 200, NULL, r, <<>>)
         /\ messageReadReceipts' =
               IF r = <<>> THEN messageReadReceipts
               ELSE Insert(messageReadReceipts,
                           [messageId |-> r[Len(r)], userId |-> req[p].user])
    /\ UNCHANGED <<messagesData,
                   conversations, conversationMembers, messages, now, nWrites,
                   req, hist, requested, lastTouch>>

\* storage.getConversationMessages(id, limit ? parseInt(limit) : 50)
GetMessages(p) ==
    /\ pc[p] = "g_messages"
    /\ \E r \in getConversationMessages(req[p].conv, QueryLimit(req[p].limit)) :
         Respond(p, 200, NULL, r, <<>>)
    /\ UNCHANGED <<messagesData,
                   store, now, nWrites, req, hist, requested, lastTouch>>

\* createMessage, first statement: db.insert(messages).values(message).
CreateMessageInsert(p) ==
    /\ pc[p] = "s_insert"
    /\ Len(messages) < MaxMsgs
    /\ \E t \in Stamps :
        /\ now' = t
        /\ messages' = Insert(messages,
               [conversationId |-> req[p].conv, senderId |-> req[p].user,
                createdAt |-> t])
    /\ hist' = [hist EXCEPT ![p].wrote = TRUE, ![p].msg = Len(messages) + 1]
    /\ Await(p, "s_touch", [loc[p] EXCEPT !.message = Len(messages) + 1])
    /\ UNCHANGED <<messagesData,
                   conversations, conversationMembers, messageReadReceipts,
                   nWrites, req, requested, lastTouch>>

\* createMessage, second statement:
\* db.update(conversations).set({updatedAt: new Date()}).where(id = conversationId)
CreateMessageTouch(p) ==
    /\ pc[p] = "s_touch"
    /\ \E t \in Stamps :
        /\ now' = t
        /\ conversations' = TouchConversation(conversations, req[p].conv, t)
    /\ lastTouch' = [conv |-> req[p].conv, kind |-> "message"]
    /\ hist' = [hist EXCEPT ![p].wrote = TRUE, ![p].touched = TRUE]
    /\ Await(p, "s_mark", loc[p])
    /\ UNCHANGED <<messagesData,
                   conversationMembers, messages, messageReadReceipts,
                   nWrites, req, requested>>

\* storage.markMessageAsRead(messageId, userId), from either route; a message
\* id that names no message violates the foreign key and the insert throws.
MarkMessageAsRead(p) ==
    /\ pc[p] \in {"s_mark", "r_mark"}
    /\ LET messageId == IF pc[p] = "s_mark" THEN loc[p].message ELSE req[p].msg
       IN  IF ~MessageExists(messageId)
           THEN /\ Respond(p, 500, NULL, <<>>, <<>>)
                /\ hist' = [hist EXCEPT ![p].threw = TRUE]
                /\ UNCHANGED messageReadReceipts
           ELSE /\ messageReadReceipts' = InsertReceiptOnConflictDoNothing(
                       [messageId |-> messageId, userId |-> req[p].user])
                /\ Wrote(p)
                /\ IF pc[p] = "s_mark"
                   THEN Await(p, "s_readback", loc[p])
                   ELSE Respond(p, 200, NULL, <<>>, <<>>)
    /\ UNCHANGED <<messagesData,
                   conversations, conversationMembers, messages, now, nWrites,
                   req, requested, lastTouch>>

\* const messageWithSender = await storage.getConversationMessages(id, 1);
\* res.json(messageWithSender[0])
ReadBack(p) ==
    /\ pc[p] = "s_readback"
    /\ \E r \in getConversationMessages(req[p].conv, 1) :
         Respond(p, 200, NULL, r, <<>>)
    /\ UNCHANGED <<messagesData,
                   store, now, nWrites, req, hist, requested, lastTouch>>

(***************************************************************************)
(* ChatArea (client).  The message list it renders is the data of           *)
(* useQuery(["/api/conversations", id, "messages"]), refetched every 2 s    *)
(* and after a successful send (invalidateQueries); sendMessageMutation has  *)
(* no onMutate and never writes the query data itself.                       *)
(***************************************************************************)
\* The messages query has fetched successfully: its data is the response body.
\* A failed fetch leaves the data as it was.
MessagesQuerySuccess(p) ==
    /\ pc[p] = "done"
    /\ req[p].op = "getMessages"
    /\ resp[p].status = 200
    /\ messagesData' = resp[p].msgs
    /\ pc' = [pc EXCEPT ![p] = "idle"]
    /\ UNCHANGED <<store, now, nWrites, req, loc, resp, hist, requested,
                   lastTouch, lastDone>>

(***************************************************************************)
(* Specifications.  Init is the empty database; every specification runs   *)
(* the same handlers and differs in the requests it sends and in how many  *)
(* requests are in flight at once.                                          *)
(***************************************************************************)
\* Messaging, one request at a time.
Next ==
    \/ Start("p1", MessagingRequests)
    \/ StoreFailure("p1")
    \/ GucList("p1")
    \/ GucLastMessage("p1")
    \/ GucUnread("p1")
    \/ GucOthers("p1")
    \/ CreateConversation("p1")
    \/ AddCreator("p1")
    \/ AddMember("p1")
    \/ CheckMembership("p1")
    \/ GetMessages("p1")
    \/ CreateMessageInsert("p1")
    \/ CreateMessageTouch("p1")
    \/ MarkMessageAsRead("p1")
    \/ ReadBack("p1")

Spec == Init /\ [][Next]_vars

\* Creating and listing conversations, one request at a time.
NextConversations ==
    \/ Start("p1", ConversationRequests)
    \/ StoreFailure("p1")
    \/ GucList("p1")
    \/ GucLastMessage("p1")
    \/ GucUnread("p1")
    \/ GucOthers("p1")
    \/ CreateConversation("p1")
    \/ AddCreator("p1")
    \/ AddMember("p1")

SpecConversations == Init /\ [][NextConversations]_vars

\* Sending messages to a direct conversation, two requests in flight.
NextConcurrentSend ==
    \E p \in Procs :
        \/ Start(p, ConcurrentSendRequests)
        \/ GucList(p)
        \/ GucLastMessage(p)
        \/ GucUnread(p)
        \/ GucOthers(p)
        \/ CreateConversation(p)
        \/ AddCreator(p)
        \/ AddMember(p)
        \/ CheckMembership(p)
        \/ CreateMessageInsert(p)
        \/ CreateMessageTouch(p)
        \/ MarkMessageAsRead(p)
        \/ ReadBack(p)

SpecConcurrentSend == Init /\ [][NextConcurrentSend]_vars

\* Opening a direct conversation, two requests in flight.
NextConcurrentDirect ==
    \E p \in Procs :
        \/ Start(p, ConcurrentDirectRequests)
        \/ GucList(p)
        \/ GucLastMessage(p)
        \/ GucUnread(p)
        \/ GucOthers(p)
        \/ CreateConversation(p)
        \/ AddCreator(p)
        \/ AddMember(p)

SpecConcurrentDirect == Init /\ [][NextConcurrentDirect]_vars

\* Listing conversations while a message is sent, two requests in flight.
NextConcurrentList ==
    \E p \in Procs :
        \/ Start(p, ConcurrentListRequests)
        \/ GucList(p)
        \/ GucLastMessage(p)
        \/ GucUnread(p)
        \/ GucOthers(p)
        \/ CreateConversation(p)
        \/ AddCreator(p)
        \/ AddMember(p)
        \/ CheckMembership(p)
        \/ CreateMessageInsert(p)
        \/ CreateMessageTouch(p)
        \/ MarkMessageAsRead(p)
        \/ ReadBack(p)

SpecConcurrentList == Init /\ [][NextConcurrentList]_vars

\* Sending to two conversations, two requests in flight; one more request than
\* MaxWrites, so that both conversations can be created and written to.
NextConcurrentTwo ==
    \E p \in Procs :
        \/ StartWithin(p, TwoConversationRequests, MaxWrites + 1)
        \/ GucList(p)
        \/ GucLastMessage(p)
        \/ GucUnread(p)
        \/ GucOthers(p)
        \/ CreateConversation(p)
        \/ AddCreator(p)
        \/ AddMember(p)
        \/ CheckMembership(p)
        \/ CreateMessageInsert(p)
        \/ CreateMessageTouch(p)
        \/ MarkMessageAsRead(p)
        \/ ReadBack(p)

SpecConcurrentTwo == Init /\ [][NextConcurrentTwo]_vars

\* ChatArea polling and sending, two requests in flight.
NextChatArea ==
    \E p \in Procs :
        \/ Start(p, ChatAreaRequests)
        \/ GucList(p)
        \/ GucLastMessage(p)
        \/ GucUnread(p)
        \/ GucOthers(p)
        \/ CreateConversation(p)
        \/ AddCreator(p)
        \/ AddMember(p)
        \/ CheckMembership(p)
        \/ GetMessages(p)
        \/ CreateMessageInsert(p)
        \/ CreateMessageTouch(p)
        \/ MarkMessageAsRead(p)
        \/ ReadBack(p)
        \/ MessagesQuerySuccess(p)

SpecChatArea == Init /\ [][NextChatArea]_vars

(***************************************************************************)
(* Vocabulary of the properties.                                            *)
(***************************************************************************)
MessagesOf(c) == {m \in MsgIds : messages[m].conversationId = c}

HasReceipt(m, u) ==
    \E r \in DOMAIN messageReadReceipts :
        /\ messageReadReceipts[r].messageId = m
        /\ messageReadReceipts[r].userId = u

ReceiptRows(m, u) ==
    {r \in DOMAIN messageReadReceipts :
        /\ messageReadReceipts[r].messageId = m
        /\ messageReadReceipts[r].userId = u}

MemberRows(c, u) ==
    {r \in DOMAIN conversationMembers :
        /\ conversationMembers[r].conversationId = c
        /\ conversationMembers[r].userId = u}

Unread(c, u) == {m \in MessagesOf(c) : messages[m].senderId # u /\ ~HasReceipt(m, u)}

Newest(c) == {m \in MessagesOf(c) :
                \A k \in MessagesOf(c) : messages[k].createdAt <= messages[m].createdAt}

Finished(p, op) == pc[p] = "done" /\ req[p].op = op

Quiescent == \A p \in Procs : ~Active(p)

Limits == 0..(MaxMsgs + 1) \cup {DefaultLimit}

\* C1: in every reachable state, for every conversation C and member U of C, the
\* unreadCount reported for C to U is the number of messages of C that U did not
\* send and has no read receipt for; an answered GET /api/conversations carries
\* that number in every entry.
C1_UnreadCount ==
    /\ \A c \in ConvIds, u \in Users :
         MemberRows(c, u) # {} => UnreadCount(c, u) = Cardinality(Unread(c, u))
    /\ \A p \in Procs :
         (Finished(p, "list") /\ resp[p].status = 200 /\ ~hist[p].overlap) =>
            \A k \in DOMAIN resp[p].list :
               resp[p].list[k].unreadCount =
                  Cardinality(Unread(resp[p].list[k].id, req[p].user))

\* C1 witness: GET /api/conversations told a user of one unread message in a
\* conversation that also holds a message the user sent itself.
C1_Witness ==
    \E p \in Procs :
        /\ Finished(p, "list")
        /\ resp[p].status = 200
        /\ \E k \in DOMAIN resp[p].list :
             /\ resp[p].list[k].unreadCount = 1
             /\ \E m \in MessagesOf(resp[p].list[k].id) :
                  messages[m].senderId = req[p].user /\ HasReceipt(m, req[p].user)

\* C2: marking the same message read for the same user any number of times
\* leaves exactly one receipt row for the pair.
C2_OneReceiptPerPair ==
    \A m \in MsgIds, u \in Users : Cardinality(ReceiptRows(m, u)) <= 1

Ascending(r) ==
    \A i, j \in DOMAIN r : i < j => messages[r[i]].createdAt <= messages[r[j]].createdAt

\* C6: whatever the conversation and the limit, getConversationMessages returns
\* its messages in non-decreasing createdAt order, and so does the route.
C6_Ascending ==
    /\ \A c \in 1..MaxConvs, n \in Limits :
         \A r \in getConversationMessages(c, n) : Ascending(r)
    /\ \A p \in Procs :
         (Finished(p, "getMessages") /\ resp[p].status = 200) => Ascending(resp[p].msgs)

\* C6 witness: the route answered with two messages of different createdAt.
C6_Witness ==
    \E p \in Procs :
        /\ Finished(p, "getMessages")
        /\ Len(resp[p].msgs) = 2
        /\ messages[resp[p].msgs[1]].createdAt < messages[resp[p].msgs[2]].createdAt

\* The page of a conversation for a limit: min(limit, count) distinct messages
\* of that conversation, none older than a message left out.
IsNewestPage(r, c, n) ==
    /\ Len(r) = Min(n, Cardinality(MessagesOf(c)))
    /\ Range(r) \subseteq MessagesOf(c)
    /\ Cardinality(Range(r)) = Len(r)
    /\ \A m \in MessagesOf(c) \ Range(r), k \in Range(r) :
         messages[m].createdAt <= messages[k].createdAt

\* The number a ?limit= string of the model stands for.
LimitAsked(l) == CASE l = <<"1">> -> 1 [] l = <<"2">> -> 2 [] OTHER -> DefaultLimit

\* C7: getConversationMessages(C, limit) returns exactly the min(limit, count)
\* messages of C with the greatest createdAt and no message of another
\* conversation; a request without a limit is served with limit 50.
C7_NewestPage ==
    /\ \A c \in 1..MaxConvs, n \in Limits :
         \A r \in getConversationMessages(c, n) : IsNewestPage(r, c, n)
    /\ \A p \in Procs :
         (Finished(p, "getMessages") /\ resp[p].status = 200 /\ ~hist[p].overlap) =>
            IsNewestPage(resp[p].msgs, req[p].conv, LimitAsked(req[p].limit))

\* C7 witness: limit 1 on a conversation of two messages returned the newer one
\* alone, while another conversation exists.
C7_Witness ==
    \E p \in Procs :
        /\ Finished(p, "getMessages")
        /\ req[p].limit = <<"1">>
        /\ Cardinality(MessagesOf(req[p].conv)) = 2
        /\ Len(resp[p].msgs) = 1
        /\ \E m \in MessagesOf(req[p].conv) :
             messages[m].createdAt < messages[resp[p].msgs[1]].createdAt

C9_ReadAll ==
    \A c \in ConvIds, u \in Users :
        /\ UnreadCount(c, u)
             <= Cardinality({m \in MessagesOf(c) : messages[m].senderId # u})
        /\ (MessagesOf(c) # {} /\ \A m \in MessagesOf(c) : HasReceipt(m, u)) =>
              /\ UnreadCount(c, u) = 0
              /\ LastMessageResults(c) \subseteq Newest(c)

\* C9 witness: b has marked a's message read through POST /api/messages/:id/read;
\* neither a nor b has anything unread.
C9_Witness ==
    \E p \in Procs, c \in ConvIds :
        /\ Finished(p, "read")
        /\ resp[p].status = 200
        /\ req[p].user = "b"
        /\ MessagesOf(c) # {}
        /\ \A m \in MessagesOf(c) : messages[m].senderId = "a" /\ HasReceipt(m, "b")
        /\ UnreadCount(c, "b") = 0
        /\ UnreadCount(c, "a") = 0

\* C3: when a user repeats the POST /api/conversations/direct it has just been
\* answered, with no request in between, the answer names the same conversation
\* and the second request inserts nothing.
C3_SameDirectTwice ==
    \A p \in Procs :
        (/\ Finished(p, "direct")
         /\ resp[p].status = 200
         /\ ~hist[p].overlap
         /\ hist[p].prev # NULL) =>
            resp[p].conv = hist[p].prev /\ ~hist[p].wrote

\* C4: whenever no request is in flight, every conversation row has a
\* membership row for each member its creation asked for.
C4_AllOrNothing ==
    Quiescent =>
        \A c \in ConvIds : \A u \in requested[c] : MemberRows(c, u) # {}

\* C10: two createMessage calls on one conversation that ran at the same time
\* have both left their message in the store: two rows, each with the sender
\* and the conversation of its request.
C10_NoLostMessage ==
    \A p \in Procs :
        hist[p].msg # NULL =>
            /\ hist[p].msg \in MsgIds
            /\ messages[hist[p].msg].senderId = req[p].user
            /\ messages[hist[p].msg].conversationId = req[p].conv
            /\ \A q \in Procs \ {p} : hist[q].msg # hist[p].msg

\* C10 witness: both senders inserted before either touched the conversation,
\* and both requests have been answered.
C10_Witness ==
    /\ \A p \in Procs : Finished(p, "send") /\ resp[p].status = 200 /\ hist[p].overlap
    /\ \E p \in Procs, q \in Procs :
         /\ p # q
         /\ hist[p].msg < hist[q].msg
         /\ messages[hist[q].msg].createdAt <= conversations[1].updatedAt
         /\ resp[p].msgs = <<hist[q].msg>>

\* C11: createMessage is atomic over its two writes: a request that is over and
\* whose message row is in the store has also written the conversation's
\* updatedAt for it, also when a storage call of the request failed.
C11_MessageWithTouch ==
    \A p \in Procs :
        (/\ pc[p] = "done"
         /\ hist[p].msg # NULL
         /\ hist[p].msg \in MsgIds) => hist[p].touched

\* C12: in every reachable state there is at most one membership row for a
\* conversation and a user, whatever memberIds or otherUserId the creation
\* requests carried.
C12_OneMemberRowPerUser ==
    \A c \in ConvIds, u \in Users : Cardinality(MemberRows(c, u)) <= 1

MembersOf(c) == {u \in Users : MemberRows(c, u) # {}}

\* C13: whenever no request is in flight, every conversation with isGroup = false
\* has exactly two members, whichever route created it; in particular the one a
\* creation request has just been answered 200 for.
C13_DirectHasTwoMembers ==
    \A p \in Procs :
        (/\ Quiescent
         /\ pc[p] = "done"
         /\ req[p].op \in {"create", "direct"}
         /\ resp[p].status = 200
         /\ ~conversations[resp[p].conv].isGroup) =>
            Cardinality(MembersOf(resp[p].conv)) = 2

\* The non-group conversations whose members are exactly u and v.
DirectConversations(u, v) ==
    {c \in ConvIds : ~conversations[c].isGroup /\ MembersOf(c) = {u, v}}

\* C14: however POST /api/conversations/direct requests for one pair of users
\* interleave, at most one non-group conversation has exactly that pair as its
\* members.
C14_OneDirectPerPair ==
    \A u \in Users : \A v \in Users \ {u} :
        Cardinality(DirectConversations(u, v)) <= 1

\* C15: once POST /api/conversations/:id/messages has answered 200 to sender S,
\* the store holds a read receipt of S for the message that request created.
C15_SenderReceipt ==
    \A p \in Procs :
        (Finished(p, "send") /\ resp[p].status = 200) =>
            /\ hist[p].msg \in MsgIds
            /\ messages[hist[p].msg].senderId = req[p].user
            /\ HasReceipt(hist[p].msg, req[p].user)

\* C15 witness: b's message to the direct conversation was answered 200; b has
\* a receipt for it and a, the other member, has none.
C15_Witness ==
    \E p \in Procs :
        /\ Finished(p, "send")
        /\ resp[p].status = 200
        /\ req[p].user = "b"
        /\ HasReceipt(hist[p].msg, "b")
        /\ ~HasReceipt(hist[p].msg, "a")

\* C16: the body of a 200 answer to POST /api/conversations/:id/messages is the
\* message that request created, also when another member sends to the same
\* conversation at the same time.
C16_ResponseIsOwnMessage ==
    \A p \in Procs :
        (Finished(p, "send") /\ resp[p].status = 200) =>
            resp[p].msgs = <<hist[p].msg>>

\* C17: the list getUserConversations returns is sorted by updatedAt, latest
\* first: of two adjacent entries the earlier one's updatedAt is greater than or
\* equal to the later one's.  So is the body of GET /api/conversations.
C17_SortedByUpdatedAt ==
    /\ \A u \in Users : \A l \in UserConversationLists(u) :
         \A k \in 1..(Len(l) - 1) : l[k].key >= l[k + 1].key
    /\ \A p \in Procs :
         (Finished(p, "list") /\ resp[p].status = 200) =>
            \A k \in 1..(Len(resp[p].list) - 1) :
               resp[p].list[k].updatedAt >= resp[p].list[k + 1].updatedAt

\* C17 witness: GET /api/conversations listed the conversation created second
\* before the one created first, whose updatedAt is earlier.
C17_Witness ==
    \E p \in Procs :
        /\ Finished(p, "list")
        /\ resp[p].status = 200
        /\ Len(resp[p].list) = 2
        /\ resp[p].list[1].id = 2
        /\ resp[p].list[2].id = 1
        /\ resp[p].list[1].updatedAt > resp[p].list[2].updatedAt

\* C18: the order of getUserConversations is deterministic: on one store state
\* the query has a single possible result, also when conversations of the user
\* have equal updatedAt.
C18_DeterministicOrder ==
    \A u \in Users : Cardinality(UserConversationLists(u)) <= 1

\* C19: for every entry of getUserConversations, lastMessage is a message of that
\* conversation with the greatest createdAt, and it is absent exactly when the
\* conversation has no message.  So it is in the body of GET /api/conversations.
C19_LastMessage ==
    /\ \A c \in ConvIds :
         LastMessageResults(c) \subseteq
            (IF MessagesOf(c) = {} THEN {NULL} ELSE Newest(c))
    /\ \A p \in Procs :
         (Finished(p, "list") /\ resp[p].status = 200 /\ ~hist[p].overlap) =>
            \A k \in DOMAIN resp[p].list :
               LET c == resp[p].list[k].id
               IN  IF MessagesOf(c) = {}
                   THEN resp[p].list[k].lastMessage = NULL
                   ELSE resp[p].list[k].lastMessage \in Newest(c)

\* C19 witness: GET /api/conversations listed a conversation with two messages,
\* the later of which is its lastMessage.
C19_Witness ==
    \E p \in Procs :
        /\ Finished(p, "list")
        /\ resp[p].status = 200
        /\ \E k \in DOMAIN resp[p].list :
             /\ resp[p].list[k].lastMessage = 2
             /\ messages[1].conversationId = resp[p].list[k].id
             /\ messages[2].conversationId = resp[p].list[k].id
             /\ messages[1].createdAt < messages[2].createdAt

\* C20: for every conversation of a user, the otherMembers that
\* getUserConversations reports are exactly the members other than that user:
\* the user is not among them, every other member is, and each of them once.
C20_OtherMembersExact ==
    \A c \in ConvIds, u \in Users :
        MemberRows(c, u) # {} =>
            LET o == OtherMembers(c, u)
            IN  /\ u \notin Range(o)
                /\ Range(o) = MembersOf(c) \ {u}
                /\ Len(o) = Cardinality(Range(o))

\* A request body that misses a required input.
Malformed(r) ==
    \/ r.op = "create" /\ r.memberIds = <<>>
    \/ r.op = "send" /\ ~r.content

\* C21: a request with malformed or missing required input (POST
\* /api/conversations with empty memberIds, POST /api/conversations/:id/messages
\* without content) is rejected before any write: it is answered with an error
\* and has made no storage call, so no row is created and no timestamp changed.
C21_RejectedBeforeWrite ==
    \A p \in Procs :
        Malformed(req[p]) =>
            /\ pc[p] = "done"
            /\ resp[p].status = 500
            /\ ~hist[p].wrote
            /\ hist[p].conv = NULL
            /\ hist[p].msg = NULL

\* C21 witness: a member of an existing conversation posted a message without
\* content to it and was answered 500; the conversation has no message.
C21_Witness ==
    \E p \in Procs :
        /\ Finished(p, "send")
        /\ ~req[p].content
        /\ req[p].conv \in ConvIds
        /\ MemberRows(req[p].conv, req[p].user) # {}
        /\ resp[p].status = 500
        /\ MessagesOf(req[p].conv) = {}

\* C22: a request that names a conversation that does not exist is answered
\* with a not-found outcome, which is not the access-denied answer (403) that a
\* non-member of an existing conversation gets.
C22_UnknownIsNotDenied ==
    \A p \in Procs :
        (/\ pc[p] = "done"
         /\ req[p].op \in {"getMessages", "send"}
         /\ req[p].conv \notin ConvIds) =>
            resp[p].status # 403

\* C23: every entry getUserConversations returns is consistent with one store
\* state, also when createMessage or markMessageAsRead run between its queries:
\* no entry has lastMessage absent together with an unreadCount above 0.
C23_EntryConsistent ==
    \A p \in Procs :
        (Finished(p, "list") /\ resp[p].status = 200) =>
            \A k \in DOMAIN resp[p].list :
                resp[p].list[k].lastMessage = NULL => resp[p].list[k].unreadCount = 0

\* C26: in every reachable state each conversation appears at most once in the
\* list getUserConversations returns, for every user and whatever creation
\* requests were made before.
C26_ListedOnce ==
    \A u \in Users : \A l \in UserConversationLists(u) :
        \A i, j \in DOMAIN l : i # j => l[i].id # l[j].id

\* C27: in every reachable state every read receipt belongs to a user who is a
\* member of the conversation that holds the message.
C27_ReceiptOfMember ==
    \A r \in DOMAIN messageReadReceipts :
        MemberRows(messages[messageReadReceipts[r].messageId].conversationId,
                   messageReadReceipts[r].userId) # {}

\* C30: when POST /api/conversations/:id/messages is answered 403 or 500, no
\* message of that request is in the store, also when the failure came after
\* createMessage had completed (in the mark-as-read or the read-back step).
C30_NoMessageBehindError ==
    \A p \in Procs :
        (/\ Finished(p, "send")
         /\ resp[p].status \in {403, 500}
         /\ hist[p].msg # NULL => hist[p].touched) =>
            hist[p].msg \notin MsgIds

\* C25: the two polled operations, GET /api/conversations and
\* GET /api/conversations/:id/messages, leave every persisted table unchanged:
\* no step of such a request, whether it goes on, answers or fails, changes a
\* table, and a poll abandoned after any of its queries has changed none.
C25_PollsWriteNothing ==
    [][\A p \in Procs :
          (/\ req[p].op \in {"list", "getMessages"}
           /\ Active(p)
           /\ pc'[p] # pc[p]) => store' = store]_vars

\* C25 witness: b fetched the messages of a conversation and was answered with
\* a message of a's; b still has no read receipt for it.
C25_Witness ==
    \E p \in Procs :
        /\ Finished(p, "getMessages")
        /\ resp[p].status = 200
        /\ req[p].user = "b"
        /\ resp[p].msgs # <<>>
        /\ \A k \in DOMAIN resp[p].msgs :
             /\ messages[resp[p].msgs[k]].senderId = "a"
             /\ ~HasReceipt(resp[p].msgs[k], "b")

\* C28: direct-conversation dedup is symmetric: once A's POST
\* /api/conversations/direct naming B has been answered, a later request by B
\* naming A, with no request in between or beside it, is answered with the same
\* conversation and inserts nothing.
C28_SymmetricDedup ==
    \A p \in Procs :
        (/\ Finished(p, "direct")
         /\ resp[p].status = 200
         /\ ~hist[p].overlap
         /\ req[p].user # req[p].other
         /\ hist[p].mirror # NULL) =>
            resp[p].conv = hist[p].mirror /\ ~hist[p].wrote

\* C29: whenever no createMessage call is in progress, of two conversations
\* that both hold messages the one whose newest message was created later has
\* an updatedAt at least as late as the other's, also after createMessage calls
\* on different conversations have interleaved.
C29_RecencyOrder ==
    (\A p \in Procs : pc[p] \notin {"s_insert", "s_touch"}) =>
        \A c1, c2 \in ConvIds :
            (\E m1 \in Newest(c1), m2 \in Newest(c2) :
                messages[m1].createdAt > messages[m2].createdAt) =>
                conversations[c1].updatedAt >= conversations[c2].updatedAt

\* C24: on send the client adds the new message to its local message list
\* before the server confirms it: while a send of a member is in flight and the
\* list does not yet hold the stored message, the list holds a local entry, one
\* that is not a message delivered by the server.
C24_OptimisticEntry ==
    \A p \in Procs :
        (/\ req[p].op = "send"
         /\ Active(p)
         /\ MemberRows(req[p].conv, req[p].user) # {}
         /\ hist[p].msg \notin Range(messagesData)) =>
            \E k \in DOMAIN messagesData : messagesData[k] \notin MsgIds

====
